---- MODULE Spec2Model ----
(***************************************************************************)
(* The RAW preview extractor of rawviewer: the exported decode operations  *)
(* of android/app/src/main/cpp/wrapper.cpp and windows/native_lib/         *)
(* wrapper.cpp, run against a scripted LibRaw (the codec is an opaque      *)
(* collaborator: what each of its stages returns is an input).             *)
(***************************************************************************)
EXTENDS Integers, Sequences, FiniteSets, TLC

VARIABLES platform, input, last, heap, freed

vars == <<platform, input, last, heap, freed>>

(* ------------------------------ bounds -------------------------------- *)
\* a codec image holds at most MaxPixels pixels
MaxPixels == 2
\* pixel contents are drawn from the patterns 0..MaxSeed
MaxSeed == 1
\* the process heap holds at most MaxLive output buffers
MaxLive == 2

(* --------------------------- codec vocabulary ------------------------- *)
LIBRAW_SUCCESS == "LIBRAW_SUCCESS"
LIBRAW_ERROR == "LIBRAW_IO_ERROR"
LIBRAW_IMAGE_JPEG == "LIBRAW_IMAGE_JPEG"
LIBRAW_IMAGE_BITMAP == "LIBRAW_IMAGE_BITMAP"
LIBRAW_IMAGE_OTHER == "LIBRAW_IMAGE_OTHER"

\* nullptr, as the value of a uint8_t* (live buffers are the addresses 1..MaxLive)
NULL == 0

\* a libraw_processed_image_t* that is null
NullImage == [type |-> "NULL", width |-> 0, height |-> 0, colors |-> 0, data |-> <<>>]

IsNull(img) == img.type = "NULL"

\* pixel bytes of a scripted image: distinct bytes within every pixel
Pattern(seed, n) == [k \in 1..n |-> (seed * 101 + k * 17) % 256]

Dims == {d \in (1..MaxPixels) \X (1..MaxPixels) : d[1] * d[2] <= MaxPixels}

\* the images the codec may hand out: data_size = width * height * colors
\* (8-bit samples, 1 colour for a monochrome sensor, 3 otherwise)
Images(types) ==
    {[type |-> t, width |-> d[1], height |-> d[2], colors |-> c,
      data |-> Pattern(s, d[1] * d[2] * c)] :
        t \in types, d \in Dims, c \in {1, 3}, s \in 0..MaxSeed}

data_size(img) == Len(img.data)

\* what lies after the last byte of a codec image: a readable byte of some
\* other object, or an unmapped page
Beyond == {[mapped |-> TRUE, byte |-> 0], [mapped |-> TRUE, byte |-> 255],
           [mapped |-> FALSE, byte |-> 0]}

\* The scripted codec: the return code of every stage and the image every
\* materialize step hands out. A stage that fails hands out no image.
Scripts ==
    {s \in [open : {LIBRAW_SUCCESS, LIBRAW_ERROR},
            unpack_thumb : {LIBRAW_SUCCESS, LIBRAW_ERROR},
            thumb : {NullImage} \cup
                    Images({LIBRAW_IMAGE_JPEG, LIBRAW_IMAGE_BITMAP, LIBRAW_IMAGE_OTHER}),
            unpack : {LIBRAW_SUCCESS, LIBRAW_ERROR},
            dcraw_process : {LIBRAW_SUCCESS, LIBRAW_ERROR},
            image : {NullImage} \cup Images({LIBRAW_IMAGE_BITMAP}),
            malloc : BOOLEAN,
            beyond : Beyond] :
        /\ s.unpack_thumb # LIBRAW_SUCCESS => IsNull(s.thumb)
        /\ s.unpack # LIBRAW_SUCCESS => s.dcraw_process # LIBRAW_SUCCESS
        /\ s.dcraw_process # LIBRAW_SUCCESS => IsNull(s.image)
        /\ (IsNull(s.image) \/ s.image.colors = 3) => s.beyond = [mapped |-> TRUE, byte |-> 0]
        /\ s.open # LIBRAW_SUCCESS =>
              /\ s.unpack_thumb # LIBRAW_SUCCESS
              /\ s.unpack # LIBRAW_SUCCESS
              /\ s.malloc}


(* --------------------------- the LibRaw object ------------------------ *)
\* A call in progress: the LibRaw object on the stack (its script, the codec
\* operations invoked on it and the writes to imgdata.params so far, in
\* order, and the parameter values written), the codec images handed out and cleared, the process heap,
\* the local `result` and the bytes of the buffer result.data points to.
LibRaw(script, h) ==
    [src |-> script, calls |-> <<>>, params |-> <<>>,
     made |-> <<>>, cleared |-> <<>>,
     heap |-> h, mallocs |-> 0, buf |-> <<>>,
     fault |-> FALSE, smashed |-> FALSE,
     result |-> [data |-> NULL, size |-> 0, width |-> 0, height |-> 0]]

\* one codec operation is invoked on the object (nothing runs after a fault)
Call(m, op) == IF m.fault THEN m ELSE [m EXCEPT !.calls = Append(@, op)]

\* RawProcessor.imgdata.params.<name> = value
SetParam(m, name, value) ==
    [m EXCEPT !.params = Append(@, [name |-> name, value |-> value]),
              !.calls = Append(@, "imgdata.params")]

\* the value imgdata.params.<name> holds: the last one written, -1 if never written
Param(m, name) ==
    LET idx == {i \in 1..Len(m.params) : m.params[i].name = name}
    IN IF idx = {} THEN -1
       ELSE m.params[CHOOSE i \in idx : \A j \in idx : j <= i].value

\* dcraw_make_mem_thumb / dcraw_make_mem_image hand out the scripted image
MakeMem(m, op, which) ==
    IF m.fault THEN m
    ELSE [Call(m, op) EXCEPT
            !.made = IF IsNull(m.src[which]) THEN @ ELSE Append(@, which)]

\* LibRaw::dcraw_clear_mem(p)
dcraw_clear_mem(m, which) ==
    IF m.fault THEN m
    ELSE [Call(m, "dcraw_clear_mem") EXCEPT !.cleared = Append(@, which)]

\* malloc(size): the lowest free address, or NULL when the script makes the
\* allocation fail or the heap is exhausted. The new bytes are indeterminate
\* (modelled as 0: every path overwrites them before they are read).
FreeAddrs(m) == (1..MaxLive) \ m.heap

malloc(m, size) ==
    IF m.src.malloc /\ FreeAddrs(m) # {}
    THEN CHOOSE a \in FreeAddrs(m) : \A b \in FreeAddrs(m) : a <= b
    ELSE NULL

Allocate(m, size) ==
    LET p == malloc(m, size)
    IN [m EXCEPT !.result.data = p,
                 !.mallocs = @ + 1,
                 !.heap = IF p = NULL THEN @ ELSE @ \cup {p},
                 !.buf = IF p = NULL THEN <<>> ELSE [k \in 1..size |-> 0]]

\* src[k] and dst[k] = v on C arrays (k counted from 0). A read past the end
\* of the array is undefined: it yields whatever byte lies beyond. A write
\* past the end lands outside the buffer.
Load(src, k, beyond) == IF k < Len(src) THEN src[k + 1] ELSE beyond.byte

Store(dst, k, v) == IF k < Len(dst) THEN [dst EXCEPT ![k + 1] = v] ELSE dst

\* memcpy(result.data, thumb->data, result.size)
memcpy(m, bytes, n) == [m EXCEPT !.buf = [k \in 1..n |-> bytes[k]]]

\* the outcome of a loop over total_pixels pixels on arrays of n bytes: beyond
\* the arrays the accesses are undefined; they fault on an unmapped page and
\* overwrite a neighbouring object otherwise
AfterLoop(m, dst, total_pixels, n) ==
    IF total_pixels * 3 <= n THEN [m EXCEPT !.buf = dst]
    ELSE IF m.src.beyond.mapped THEN [m EXCEPT !.buf = dst, !.smashed = TRUE]
    ELSE [m EXCEPT !.fault = TRUE]


(* ------------------ android/app/src/main/cpp/wrapper.cpp -------------- *)
\* ThumbnailResult result = {nullptr, 0, 0, 0, 0}
NullThumbnailResult ==
    [data |-> NULL, size |-> 0, width |-> 0, height |-> 0, format |-> 0]

\* ImageResult result = {nullptr, 0, 0, 0}
NullImageResult == [data |-> NULL, size |-> 0, width |-> 0, height |-> 0]

\* mutant of process_thumbnail_copy: the dimensions are reported for every
\* payload type, not for bitmaps only
process_thumbnail_copy_dims_always(m, thumb) ==
    LET m1 == Allocate([m EXCEPT !.result.size = data_size(thumb)], data_size(thumb))
        m2 == IF m1.result.data # NULL
              THEN memcpy(m1, thumb.data, m1.result.size)
              ELSE m1
        m3 == [m2 EXCEPT !.result.format =
                              IF thumb.type = LIBRAW_IMAGE_BITMAP THEN 1 ELSE 0,
                         !.result.width = thumb.width,
                         !.result.height = thumb.height]
    IN dcraw_clear_mem(m3, "thumb")

\* process_thumbnail, the embedded thumbnail is there: copy it verbatim
process_thumbnail_copy(m, thumb) ==
    LET m1 == Allocate([m EXCEPT !.result.size = data_size(thumb)], data_size(thumb))
        m2 == IF m1.result.data # NULL
              THEN memcpy(m1, thumb.data, m1.result.size)
              ELSE m1
        m3 == IF thumb.type = LIBRAW_IMAGE_JPEG
              THEN [m2 EXCEPT !.result.format = 0]
              ELSE IF thumb.type = LIBRAW_IMAGE_BITMAP
              THEN [m2 EXCEPT !.result.format = 1,
                              !.result.width = thumb.width,
                              !.result.height = thumb.height]
              ELSE m2
    IN dcraw_clear_mem(m3, "thumb")

\* mutant of process_thumbnail_pixel: the pixel is copied in the codec's order
process_thumbnail_pixel_unswapped(dst, src, i, beyond) ==
    Store(Store(Store(dst,
        i * 3 + 0, Load(src, i * 3 + 0, beyond)),
        i * 3 + 1, Load(src, i * 3 + 1, beyond)),
        i * 3 + 2, Load(src, i * 3 + 2, beyond))

\* process_thumbnail, the body of the RGB to BGR loop for pixel i
process_thumbnail_pixel(dst, src, i, beyond) ==
    Store(Store(Store(dst,
        i * 3 + 0, Load(src, i * 3 + 2, beyond)),
        i * 3 + 1, Load(src, i * 3 + 1, beyond)),
        i * 3 + 2, Load(src, i * 3 + 0, beyond))

RECURSIVE process_thumbnail_loop(_, _, _, _, _)
process_thumbnail_loop(dst, src, i, total_pixels, beyond) ==
    IF i < total_pixels
    THEN process_thumbnail_loop(process_thumbnail_pixel(dst, src, i, beyond),
                                src, i + 1, total_pixels, beyond)
    ELSE dst

\* process_thumbnail, the rendered image is there: convert it into the result
process_thumbnail_image(m, image) ==
    LET m1 == Allocate([m EXCEPT !.result.format = 1,
                                 !.result.width = image.width,
                                 !.result.height = image.height,
                                 !.result.size = data_size(image)],
                       data_size(image))
        total_pixels == m1.result.width * m1.result.height
        m2 == IF m1.result.data # NULL
              THEN AfterLoop(m1,
                       process_thumbnail_loop(m1.buf, image.data, 0, total_pixels,
                                              m1.src.beyond),
                       total_pixels, m1.result.size)
              ELSE m1
    IN dcraw_clear_mem(m2, "image")

\* mutant of process_thumbnail_fallback: the fallback renders at full size
process_thumbnail_fallback_full_size(m) ==
    LET m1 == SetParam(SetParam(SetParam(m, "use_camera_wb", 1),
                                "half_size", 0), "output_bps", 8)
        m2 == Call(m1, "unpack")
    IN IF m2.src.unpack = LIBRAW_SUCCESS
       THEN LET m3 == Call(m2, "dcraw_process")
            IN IF m3.src.dcraw_process = LIBRAW_SUCCESS
               THEN LET m4 == MakeMem(m3, "dcraw_make_mem_image", "image")
                    IN IF ~IsNull(m4.src.image)
                       THEN process_thumbnail_image(m4, m4.src.image)
                       ELSE m4
               ELSE m3
       ELSE m2

\* process_thumbnail, the fallback: generate a preview from the raw data
process_thumbnail_fallback(m) ==
    LET m1 == SetParam(SetParam(SetParam(m, "use_camera_wb", 1),
                                "half_size", 1), "output_bps", 8)
        m2 == Call(m1, "unpack")
    IN IF m2.src.unpack = LIBRAW_SUCCESS
       THEN LET m3 == Call(m2, "dcraw_process")
            IN IF m3.src.dcraw_process = LIBRAW_SUCCESS
               THEN LET m4 == MakeMem(m3, "dcraw_make_mem_image", "image")
                    IN IF ~IsNull(m4.src.image)
                       THEN process_thumbnail_image(m4, m4.src.image)
                       ELSE m4
               ELSE m3
       ELSE m2

process_thumbnail(RawProcessor) ==
    LET m0 == [RawProcessor EXCEPT !.result = NullThumbnailResult]
        m1 == Call(m0, "unpack_thumb")
    IN IF m1.src.unpack_thumb = LIBRAW_SUCCESS
       THEN LET m2 == MakeMem(m1, "dcraw_make_mem_thumb", "thumb")
            IN IF ~IsNull(m2.src.thumb)
               THEN process_thumbnail_copy(m2, m2.src.thumb)
               ELSE process_thumbnail_fallback(m2)
       ELSE process_thumbnail_fallback(m1)

\* mutant of get_thumbnail: the return code of open_file is not checked
get_thumbnail_open_unchecked(script, h) ==
    Call(process_thumbnail(Call(LibRaw(script, h), "open_file")), "recycle")

get_thumbnail(script, h) ==
    LET RawProcessor == Call(LibRaw(script, h), "open_file")
    IN IF RawProcessor.src.open # LIBRAW_SUCCESS
       THEN [RawProcessor EXCEPT !.result = NullThumbnailResult]
       ELSE Call(process_thumbnail(RawProcessor), "recycle")

get_thumbnail_from_buffer(script, h) ==
    LET RawProcessor == Call(LibRaw(script, h), "open_buffer")
    IN IF RawProcessor.src.open # LIBRAW_SUCCESS
       THEN [RawProcessor EXCEPT !.result = NullThumbnailResult]
       ELSE Call(process_thumbnail(RawProcessor), "recycle")

\* process_preview, the body of the R/B swap loop for pixel i
process_preview_pixel(dst, src, i, beyond) ==
    Store(Store(Store(dst,
        i * 3 + 0, Load(src, i * 3 + 2, beyond)),
        i * 3 + 1, Load(src, i * 3 + 1, beyond)),
        i * 3 + 2, Load(src, i * 3 + 0, beyond))

RECURSIVE process_preview_loop(_, _, _, _, _)
process_preview_loop(dst, src, i, total_pixels, beyond) ==
    IF i < total_pixels
    THEN process_preview_loop(process_preview_pixel(dst, src, i, beyond),
                              src, i + 1, total_pixels, beyond)
    ELSE dst

\* mutant of process_preview_image: the descriptor is filled in only once the
\* allocation has succeeded
process_preview_image_fill_late(m, image) ==
    LET m1 == Allocate(m, data_size(image))
        m2 == IF m1.result.data # NULL
              THEN [m1 EXCEPT !.result.width = image.width,
                              !.result.height = image.height,
                              !.result.size = data_size(image)]
              ELSE m1
        total_pixels == m2.result.width * m2.result.height
        m3 == IF m2.result.data # NULL
              THEN AfterLoop(m2,
                       process_preview_loop(m2.buf, image.data, 0, total_pixels,
                                            m2.src.beyond),
                       total_pixels, m2.result.size)
              ELSE m2
    IN dcraw_clear_mem(m3, "image")

\* process_preview, the rendered image is there: convert it into the result
process_preview_image(m, image) ==
    LET m1 == Allocate([m EXCEPT !.result.width = image.width,
                                 !.result.height = image.height,
                                 !.result.size = data_size(image)],
                       data_size(image))
        total_pixels == m1.result.width * m1.result.height
        m2 == IF m1.result.data # NULL
              THEN AfterLoop(m1,
                       process_preview_loop(m1.buf, image.data, 0, total_pixels,
                                            m1.src.beyond),
                       total_pixels, m1.result.size)
              ELSE m1
    IN dcraw_clear_mem(m2, "image")

\* mutant of process_preview: a failed unpack is tried once more
process_preview_retry(RawProcessor, half_size) ==
    LET m0 == [RawProcessor EXCEPT !.result = NullImageResult]
        m1 == SetParam(SetParam(SetParam(SetParam(m0, "use_camera_wb", 1),
                  "half_size", half_size), "output_bps", 8), "output_color", 1)
        m2 == Call(m1, "unpack")
    IN IF m2.src.unpack # LIBRAW_SUCCESS
       THEN Call(m2, "unpack")
       ELSE LET m3 == Call(m2, "dcraw_process")
            IN IF m3.src.dcraw_process # LIBRAW_SUCCESS
               THEN m3
               ELSE LET m4 == MakeMem(m3, "dcraw_make_mem_image", "image")
                    IN IF ~IsNull(m4.src.image)
                       THEN process_preview_image(m4, m4.src.image)
                       ELSE m4

process_preview(RawProcessor, half_size) ==
    LET m0 == [RawProcessor EXCEPT !.result = NullImageResult]
        m1 == SetParam(SetParam(SetParam(SetParam(m0, "use_camera_wb", 1),
                  "half_size", half_size), "output_bps", 8), "output_color", 1)
        m2 == Call(m1, "unpack")
    IN IF m2.src.unpack # LIBRAW_SUCCESS
       THEN m2
       ELSE LET m3 == Call(m2, "dcraw_process")
            IN IF m3.src.dcraw_process # LIBRAW_SUCCESS
               THEN m3
               ELSE LET m4 == MakeMem(m3, "dcraw_make_mem_image", "image")
                    IN IF ~IsNull(m4.src.image)
                       THEN process_preview_image(m4, m4.src.image)
                       ELSE m4

\* mutant of get_preview: the source is recycled on the open-failure path too
get_preview_recycle_always(script, h, half_size) ==
    LET RawProcessor == Call(LibRaw(script, h), "open_file")
    IN IF RawProcessor.src.open # LIBRAW_SUCCESS
       THEN Call([RawProcessor EXCEPT !.result = NullImageResult], "recycle")
       ELSE Call(process_preview(RawProcessor, half_size), "recycle")

get_preview(script, h, half_size) ==
    LET RawProcessor == Call(LibRaw(script, h), "open_file")
    IN IF RawProcessor.src.open # LIBRAW_SUCCESS
       THEN [RawProcessor EXCEPT !.result = NullImageResult]
       ELSE Call(process_preview(RawProcessor, half_size), "recycle")

get_preview_from_buffer(script, h, half_size) ==
    LET RawProcessor == Call(LibRaw(script, h), "open_buffer")
    IN IF RawProcessor.src.open # LIBRAW_SUCCESS
       THEN [RawProcessor EXCEPT !.result = NullImageResult]
       ELSE Call(process_preview(RawProcessor, half_size), "recycle")


(* ---------------------- windows/native_lib/wrapper.cpp ---------------- *)
\* mutant of win_get_thumbnail_copy: an embedded bitmap goes through the
\* R/B swap like a rendered one
win_get_thumbnail_copy_swapped(m, thumb) ==
    LET m1 == Allocate([m EXCEPT !.result.size = data_size(thumb)], data_size(thumb))
        m2 == IF m1.result.data # NULL
              THEN IF thumb.type = LIBRAW_IMAGE_BITMAP
                   THEN [m1 EXCEPT !.buf =
                            [k \in 1..m1.result.size |->
                                Load(thumb.data,
                                     IF k % 3 = 1 THEN k + 1
                                     ELSE IF k % 3 = 0 THEN k - 3
                                     ELSE k - 1,
                                     m1.src.beyond)]]
                   ELSE memcpy(m1, thumb.data, m1.result.size)
              ELSE m1
        m3 == IF thumb.type = LIBRAW_IMAGE_JPEG
              THEN [m2 EXCEPT !.result.format = 0]
              ELSE IF thumb.type = LIBRAW_IMAGE_BITMAP
              THEN [m2 EXCEPT !.result.format = 1,
                              !.result.width = thumb.width,
                              !.result.height = thumb.height]
              ELSE m2
    IN Call(dcraw_clear_mem(m3, "thumb"), "recycle")

\* get_thumbnail, the embedded thumbnail is there: copy it verbatim
win_get_thumbnail_copy(m, thumb) ==
    LET m1 == Allocate([m EXCEPT !.result.size = data_size(thumb)], data_size(thumb))
        m2 == IF m1.result.data # NULL
              THEN memcpy(m1, thumb.data, m1.result.size)
              ELSE m1
        m3 == IF thumb.type = LIBRAW_IMAGE_JPEG
              THEN [m2 EXCEPT !.result.format = 0]
              ELSE IF thumb.type = LIBRAW_IMAGE_BITMAP
              THEN [m2 EXCEPT !.result.format = 1,
                              !.result.width = thumb.width,
                              !.result.height = thumb.height]
              ELSE m2
    IN Call(dcraw_clear_mem(m3, "thumb"), "recycle")

\* get_thumbnail, the body of the RGB to BGR loop for pixel i
win_get_thumbnail_pixel(dst, src, i, beyond) ==
    Store(Store(Store(dst,
        i * 3 + 0, Load(src, i * 3 + 2, beyond)),
        i * 3 + 1, Load(src, i * 3 + 1, beyond)),
        i * 3 + 2, Load(src, i * 3 + 0, beyond))

RECURSIVE win_get_thumbnail_loop(_, _, _, _, _)
win_get_thumbnail_loop(dst, src, i, total_pixels, beyond) ==
    IF i < total_pixels
    THEN win_get_thumbnail_loop(win_get_thumbnail_pixel(dst, src, i, beyond),
                                src, i + 1, total_pixels, beyond)
    ELSE dst

\* get_thumbnail, the rendered image is there: convert it into the result
win_get_thumbnail_image(m, image) ==
    LET m1 == Allocate([m EXCEPT !.result.format = 1,
                                 !.result.width = image.width,
                                 !.result.height = image.height,
                                 !.result.size = data_size(image)],
                       data_size(image))
        total_pixels == m1.result.width * m1.result.height
        m2 == IF m1.result.data # NULL
              THEN AfterLoop(m1,
                       win_get_thumbnail_loop(m1.buf, image.data, 0, total_pixels,
                                              m1.src.beyond),
                       total_pixels, m1.result.size)
              ELSE m1
    IN dcraw_clear_mem(m2, "image")

\* get_thumbnail, the fallback: generate a preview
win_get_thumbnail_fallback(m) ==
    LET m1 == SetParam(SetParam(SetParam(m, "use_camera_wb", 1),
                                "half_size", 1), "output_bps", 8)
        m2 == Call(m1, "unpack")
        m5 == IF m2.src.unpack = LIBRAW_SUCCESS
              THEN LET m3 == Call(m2, "dcraw_process")
                   IN IF m3.src.dcraw_process = LIBRAW_SUCCESS
                      THEN LET m4 == MakeMem(m3, "dcraw_make_mem_image", "image")
                           IN IF ~IsNull(m4.src.image)
                              THEN win_get_thumbnail_image(m4, m4.src.image)
                              ELSE m4
                      ELSE m3
              ELSE m2
    IN Call(m5, "recycle")

win_get_thumbnail(script, h) ==
    LET m0 == [LibRaw(script, h) EXCEPT !.result = NullThumbnailResult]
        RawProcessor == Call(m0, "open_file")
    IN IF RawProcessor.src.open # LIBRAW_SUCCESS
       THEN RawProcessor
       ELSE LET m1 == Call(RawProcessor, "unpack_thumb")
            IN IF m1.src.unpack_thumb = LIBRAW_SUCCESS
               THEN LET m2 == MakeMem(m1, "dcraw_make_mem_thumb", "thumb")
                    IN IF ~IsNull(m2.src.thumb)
                       THEN win_get_thumbnail_copy(m2, m2.src.thumb)
                       ELSE win_get_thumbnail_fallback(m2)
               ELSE win_get_thumbnail_fallback(m1)

\* get_preview, the body of the R/B swap loop for pixel i
win_get_preview_pixel(dst, src, i, beyond) ==
    Store(Store(Store(dst,
        i * 3 + 0, Load(src, i * 3 + 2, beyond)),
        i * 3 + 1, Load(src, i * 3 + 1, beyond)),
        i * 3 + 2, Load(src, i * 3 + 0, beyond))

RECURSIVE win_get_preview_loop(_, _, _, _, _)
win_get_preview_loop(dst, src, i, total_pixels, beyond) ==
    IF i < total_pixels
    THEN win_get_preview_loop(win_get_preview_pixel(dst, src, i, beyond),
                              src, i + 1, total_pixels, beyond)
    ELSE dst

\* get_preview, the rendered image is there: convert it into the result
win_get_preview_image(m, image) ==
    LET m1 == Allocate([m EXCEPT !.result.width = image.width,
                                 !.result.height = image.height,
                                 !.result.size = data_size(image)],
                       data_size(image))
        total_pixels == m1.result.width * m1.result.height
        m2 == IF m1.result.data # NULL
              THEN AfterLoop(m1,
                       win_get_preview_loop(m1.buf, image.data, 0, total_pixels,
                                            m1.src.beyond),
                       total_pixels, m1.result.size)
              ELSE m1
    IN dcraw_clear_mem(m2, "image")

\* mutant of win_get_preview: the early return after a failed render forgets
\* to recycle
win_get_preview_leaky(script, h, half_size) ==
    LET m0 == [LibRaw(script, h) EXCEPT !.result = NullImageResult]
        m1 == SetParam(SetParam(SetParam(SetParam(m0, "use_camera_wb", 1),
                  "half_size", half_size), "output_bps", 8), "output_color", 1)
        RawProcessor == Call(m1, "open_file")
    IN IF RawProcessor.src.open # LIBRAW_SUCCESS
       THEN RawProcessor
       ELSE LET m2 == Call(RawProcessor, "unpack")
            IN IF m2.src.unpack # LIBRAW_SUCCESS
               THEN Call(m2, "recycle")
               ELSE LET m3 == Call(m2, "dcraw_process")
                    IN IF m3.src.dcraw_process # LIBRAW_SUCCESS
                       THEN m3
                       ELSE LET m4 == MakeMem(m3, "dcraw_make_mem_image", "image")
                                m5 == IF ~IsNull(m4.src.image)
                                      THEN win_get_preview_image(m4, m4.src.image)
                                      ELSE m4
                            IN Call(m5, "recycle")

win_get_preview(script, h, half_size) ==
    LET m0 == [LibRaw(script, h) EXCEPT !.result = NullImageResult]
        m1 == SetParam(SetParam(SetParam(SetParam(m0, "use_camera_wb", 1),
                  "half_size", half_size), "output_bps", 8), "output_color", 1)
        RawProcessor == Call(m1, "open_file")
    IN IF RawProcessor.src.open # LIBRAW_SUCCESS
       THEN RawProcessor
       ELSE LET m2 == Call(RawProcessor, "unpack")
            IN IF m2.src.unpack # LIBRAW_SUCCESS
               THEN Call(m2, "recycle")
               ELSE LET m3 == Call(m2, "dcraw_process")
                    IN IF m3.src.dcraw_process # LIBRAW_SUCCESS
                       THEN Call(m3, "recycle")
                       ELSE LET m4 == MakeMem(m3, "dcraw_make_mem_image", "image")
                                m5 == IF ~IsNull(m4.src.image)
                                      THEN win_get_preview_image(m4, m4.src.image)
                                      ELSE m4
                            IN Call(m5, "recycle")

(* ------------------------------ free_buffer --------------------------- *)
\* free_buffer(buffer): the pointers it hands to free(), and the heap after
free_buffer(buffer) == IF buffer # NULL THEN <<buffer>> ELSE <<>>

HeapAfterFree(h, ptrs) == h \ {ptrs[i] : i \in 1..Len(ptrs)}

(* ------------------------------ the process --------------------------- *)
\* One process of one platform's library, holding one RAW source. `last` is
\* the decode call that returned last (h0: the heap it started on), `heap`
\* the live output buffers,
\* `freed` the free_buffer calls made on the last result.
NoCall == [op |-> "none", half_size |-> 0, h0 |-> {}, m |-> LibRaw(input, {})]

Init ==
    /\ platform \in {"android", "windows"}
    /\ input \in Scripts
    /\ last = NoCall
    /\ heap = {}
    /\ freed = [calls |-> 0, ptrs |-> <<>>]

\* a decode call runs to its end: it returns, or the process has faulted
Returns(op, half_size, m) ==
    /\ ~last.m.fault
    /\ last' = [op |-> op, half_size |-> half_size, h0 |-> heap, m |-> m]
    /\ heap' = m.heap
    /\ freed' = [calls |-> 0, ptrs |-> <<>>]
    /\ UNCHANGED <<platform, input>>

GetThumbnail ==
    /\ platform = "android"
    /\ Returns("get_thumbnail", 1, get_thumbnail(input, heap))

GetThumbnailFromBuffer ==
    /\ platform = "android"
    /\ Returns("get_thumbnail_from_buffer", 1, get_thumbnail_from_buffer(input, heap))

GetPreview ==
    /\ platform = "android"
    /\ \E half_size \in {0, 1} :
          Returns("get_preview", half_size, get_preview(input, heap, half_size))

GetPreviewFromBuffer ==
    /\ platform = "android"
    /\ \E half_size \in {0, 1} :
          Returns("get_preview_from_buffer", half_size,
                  get_preview_from_buffer(input, heap, half_size))

WinGetThumbnail ==
    /\ platform = "windows"
    /\ Returns("get_thumbnail", 1, win_get_thumbnail(input, heap))

WinGetPreview ==
    /\ platform = "windows"
    /\ \E half_size \in {0, 1} :
          Returns("get_preview", half_size, win_get_preview(input, heap, half_size))

\* the caller releases the buffer of the last result, once
FreeBuffer ==
    /\ last.op # "none"
    /\ ~last.m.fault
    /\ freed.calls = 0
    /\ freed' = [calls |-> 1, ptrs |-> free_buffer(last.m.result.data)]
    /\ heap' = HeapAfterFree(heap, free_buffer(last.m.result.data))
    /\ UNCHANGED <<platform, input, last>>

Next ==
    \/ GetThumbnail
    \/ GetThumbnailFromBuffer
    \/ GetPreview
    \/ GetPreviewFromBuffer
    \/ WinGetThumbnail
    \/ WinGetPreview
    \/ FreeBuffer

Spec == Init /\ [][Next]_vars


(* ------------------------------ vocabulary ---------------------------- *)
R == last.m.result

\* the last decode call has returned a descriptor to the caller
Returned == last.op # "none" /\ ~last.m.fault

IsThumbnailOp == last.op \in {"get_thumbnail", "get_thumbnail_from_buffer"}

IsPreviewOp == last.op \in {"get_preview", "get_preview_from_buffer"}

OpenOk == input.open = LIBRAW_SUCCESS

\* embedded extraction yields a payload / yields none
ThumbPayload == input.unpack_thumb = LIBRAW_SUCCESS /\ ~IsNull(input.thumb)

\* unpack, render and materialize of the rendered image all succeed
Rendered ==
    /\ input.unpack = LIBRAW_SUCCESS
    /\ input.dcraw_process = LIBRAW_SUCCESS
    /\ ~IsNull(input.image)

\* the call went down the render path: get_preview, or get_thumbnail's fallback
RenderPath == OpenOk /\ (IsPreviewOp \/ (IsThumbnailOp /\ ~ThumbPayload))

Invoked(op) == \E i \in 1..Len(last.m.calls) : last.m.calls[i] = op

Count(seq, x) == Cardinality({i \in 1..Len(seq) : seq[i] = x})

\* position of the first invocation of op in the call (0: never invoked)
Pos(op) ==
    IF Invoked(op)
    THEN CHOOSE i \in 1..Len(last.m.calls) :
            /\ last.m.calls[i] = op
            /\ \A j \in 1..(i - 1) : last.m.calls[j] # op
    ELSE 0

DecodeStages ==
    {"unpack_thumb", "dcraw_make_mem_thumb", "unpack", "dcraw_process",
     "dcraw_make_mem_image"}

AllZero ==
    /\ R.data = NULL /\ R.size = 0 /\ R.width = 0 /\ R.height = 0
    /\ IsThumbnailOp => R.format = 0

\* pixel i of the returned buffer is pixel i of src with its channels reversed
ReversedPixel(out, src, i) ==
    /\ 3 * i + 3 <= Len(out)
    /\ 3 * i + 3 <= Len(src)
    /\ out[3 * i + 1] = src[3 * i + 3]
    /\ out[3 * i + 2] = src[3 * i + 2]
    /\ out[3 * i + 3] = src[3 * i + 1]

(* ------------------------------- claims ------------------------------- *)
\* C1: when the codec's open step fails, every decode operation returns the
\* null/zero descriptor, allocates nothing and invokes no decode stage, and
\* free_buffer on the returned null pointer releases nothing.
C1_OpenFailure ==
    (Returned /\ ~OpenOk) =>
        /\ AllZero
        /\ last.m.mallocs = 0
        /\ heap = last.h0
        /\ \A op \in DecodeStages : ~Invoked(op)
        /\ freed.ptrs = <<>>

C1_Witness == Returned /\ ~OpenOk /\ freed.calls = 1

\* C2: get_thumbnail with an embedded payload and a successful allocation
\* returns the payload's bytes verbatim, its byte size, format 0 for JPEG and
\* 1 for a bitmap, the dimensions for a bitmap and 0/0 otherwise, and never
\* invokes unpack or render.
C2_EmbeddedThumbnail ==
    (Returned /\ IsThumbnailOp /\ OpenOk /\ ThumbPayload /\ R.data # NULL) =>
        /\ last.m.buf = input.thumb.data
        /\ R.size = data_size(input.thumb)
        /\ input.thumb.type = LIBRAW_IMAGE_JPEG => R.format = 0
        /\ input.thumb.type = LIBRAW_IMAGE_BITMAP => R.format = 1
        /\ IF input.thumb.type = LIBRAW_IMAGE_BITMAP
           THEN R.width = input.thumb.width /\ R.height = input.thumb.height
           ELSE R.width = 0 /\ R.height = 0
        /\ ~Invoked("unpack")
        /\ ~Invoked("dcraw_process")

C2_Witness ==
    /\ Returned /\ IsThumbnailOp /\ OpenOk /\ ThumbPayload /\ R.data # NULL
    /\ input.thumb.type = LIBRAW_IMAGE_BITMAP
    /\ input.thumb.width * input.thumb.height = MaxPixels
    /\ input.thumb.colors = 3
    /\ input.unpack = LIBRAW_SUCCESS

\* C3: when get_thumbnail opens the source but the embedded extraction yields
\* no payload, the call writes use_camera_wb = 1, half_size = 1 and
\* output_bps = 8, then invokes unpack and, once unpack has succeeded, render;
\* when both succeed, the image is materialized and the allocation succeeds,
\* the result is non-null with format 1 and the rendered image's dimensions.
C3_Fallback ==
    (Returned /\ IsThumbnailOp /\ OpenOk /\ ~ThumbPayload) =>
        /\ Param(last.m, "use_camera_wb") = 1
        /\ Param(last.m, "half_size") = 1
        /\ Param(last.m, "output_bps") = 8
        /\ Invoked("unpack")
        /\ Count(SubSeq(last.m.calls, 1, Pos("unpack")), "imgdata.params") = 3
        /\ Invoked("dcraw_process") <=> input.unpack = LIBRAW_SUCCESS
        /\ Invoked("dcraw_process") => Pos("unpack") < Pos("dcraw_process")
        /\ (Rendered /\ input.malloc /\ last.h0 # 1..MaxLive) =>
              /\ R.data # NULL
              /\ R.format = 1
              /\ R.width = input.image.width
              /\ R.height = input.image.height

C3_Witness ==
    /\ Returned /\ IsThumbnailOp /\ OpenOk /\ ~ThumbPayload
    /\ Rendered /\ R.data # NULL
    /\ input.image.colors = 3
    /\ input.image.width * input.image.height = MaxPixels

\* C4: on the render path (get_preview, get_thumbnail's fallback), a failure
\* of unpack, of render or of the materialization returns the null/zero
\* descriptor without allocating; and no call invokes a decode stage twice.
C4_StageFailure ==
    Returned =>
        /\ (RenderPath /\ ~Rendered) => (AllZero /\ last.m.mallocs = 0 /\ heap = last.h0)
        /\ \A op \in DecodeStages : Count(last.m.calls, op) <= 1

C4_Witness ==
    /\ Returned /\ IsThumbnailOp /\ RenderPath
    /\ input.unpack = LIBRAW_SUCCESS
    /\ input.dcraw_process # LIBRAW_SUCCESS
    /\ input.unpack_thumb = LIBRAW_SUCCESS


\* the codec payload the returned buffer was made from
Payload == IF IsThumbnailOp /\ ThumbPayload THEN input.thumb ELSE input.image

\* the result carries a raw bitmap: any ImageResult, a ThumbnailResult of format 1
IsBitmapResult == IsPreviewOp \/ (IsThumbnailOp /\ R.format = 1)

\* C5: a non-null bitmap result has size = width * height * 3; a non-null
\* encoded result (format 0) has width = height = 0 and the payload's size.
C5_SizeInvariant ==
    (Returned /\ R.data # NULL) =>
        /\ IsBitmapResult => R.size = R.width * R.height * 3
        /\ (IsThumbnailOp /\ R.format = 0) =>
              (R.width = 0 /\ R.height = 0 /\ R.size = data_size(Payload))

\* C6 as stated: a null data pointer comes with size, width, height and
\* format all zero on every exit path, allocation failure included.
C6_NullMeansAllZero == (Returned /\ R.data = NULL) => AllZero

\* the fields a call sets for a payload it has materialized
DescribesPayload ==
    /\ R.size = data_size(Payload)
    /\ IF Payload.type = LIBRAW_IMAGE_BITMAP
       THEN R.width = Payload.width /\ R.height = Payload.height
       ELSE R.width = 0 /\ R.height = 0
    /\ IsThumbnailOp =>
          R.format = (IF Payload.type = LIBRAW_IMAGE_BITMAP THEN 1 ELSE 0)

\* C6 amended: a null data pointer comes with the all-zero descriptor on every
\* exit path on which no output allocation was attempted; when the output
\* allocation fails, data is null while size, width, height and format
\* describe the payload that was materialized.
C6_NullShapes ==
    (Returned /\ R.data = NULL) =>
        IF last.m.mallocs = 0 THEN AllZero ELSE (last.m.mallocs = 1 /\ DescribesPayload)

C6_Witness ==
    /\ Returned /\ R.data = NULL /\ last.m.mallocs = 1
    /\ IsPreviewOp /\ ~input.malloc
    /\ R.size = MaxPixels * 3

\* pixel i of src is made of codec bytes: its three bytes lie within src
InPayload(src, i) == 3 * i + 3 <= Len(src)

ImagesReleased ==
    /\ \A w \in {"thumb", "image"} :
          Count(last.m.cleared, w) = Count(last.m.made, w)
    /\ Len(last.m.made) = Count(last.m.calls, "dcraw_clear_mem")
    /\ \A w \in {"thumb", "image"} : Count(last.m.made, w) <= 1

IsStageOp(c) == c \in DecodeStages \cup {"dcraw_clear_mem", "recycle"}

StageSeq(m) == SelectSeq(m.calls, IsStageOp)

\* two calls invoked the same stage sequence and returned the same descriptor
SameOutcome(a, b) ==
    /\ a.fault = b.fault
    /\ StageSeq(a) = StageSeq(b)
    /\ ~a.fault => (a.result = b.result /\ a.buf = b.buf)

\* C10: on the same codec outcomes, heap and half_size, the Android and the
\* Windows get_thumbnail, and the Android and the Windows get_preview, invoke
\* the same sequence of codec stage and release operations and return the same
\* descriptor (and the same bytes).
C10_PlatformsAgree ==
    /\ last.op = "get_thumbnail" =>
          /\ SameOutcome(last.m, get_thumbnail(input, last.h0))
          /\ SameOutcome(last.m, win_get_thumbnail(input, last.h0))
    /\ last.op = "get_preview" =>
          /\ SameOutcome(last.m, get_preview(input, last.h0, last.half_size))
          /\ SameOutcome(last.m, win_get_preview(input, last.h0, last.half_size))

C10_Witness ==
    /\ platform = "windows"
    /\ Returned /\ last.op = "get_preview" /\ last.half_size = 0
    /\ Rendered /\ R.data # NULL
    /\ last.h0 # {}

====
